---- MODULE Spec2Model ----
(***************************************************************************)
(* Model of hailo_model_zoo/core/preprocessing/detection_preprocessing.py. *)
(*                                                                         *)
(* Number representation.                                                  *)
(*   - Box coordinates, areas and ratios that the code keeps in tf.float32 *)
(*     and only adds, multiplies, clips or floors are modelled as exact    *)
(*     rationals <<n, d>> (d > 0, lowest terms).                           *)
(*   - The size arithmetic of _ar_preserving_resize_and_crop, whose result *)
(*     is TRUNCATED to int32, is modelled in IEEE binary32 (24-bit         *)
(*     significand, round to nearest even), because truncation turns a     *)
(*     rounding error of one ulp into a difference of one pixel.           *)
(*   - letterbox runs in Python: float division and round() (round half to *)
(*     even) on values whose distance to a tie is far above one ulp of a   *)
(*     double; it is modelled with exact rationals and round-half-even.    *)
(* Tensor representation.                                                  *)
(*   A 1-D tensor is [head, fill, len]: entry i is head[i] for             *)
(*   i <= Len(head) and fill for Len(head) < i <= len.                     *)
(* Image representation.                                                   *)
(*   An image is its shape and the set of pixel values it holds; the input *)
(*   image is uniformly coloured, so every resize filter returns the same  *)
(*   colour and a border adds the border colour.                           *)
(***************************************************************************)
EXTENDS Integers, Sequences, FiniteSets, TLC

\* ------------------------------------------------------------------ bounds
MaxSide      == 3    \* sides of image and target under Spec
MaxImgSide   == 11   \* sides of the image under SpecSizes
MaxDim       == 13   \* sides of the target under SpecSizes
MaxBoxes     == 2    \* ground-truth boxes per image
BoxDen       == 2    \* normalized coordinates are k / BoxDen
MaxCalls     == 2    \* calls of one function on one image_info mapping
MaxPadArg    == 3    \* max_tensor_padding handed to _pad_tensor directly

\* ------------------------------------------------------- program constants
MAX_PADDING_LENGTH == 100
FACE_MAX_PAD       == 2048
YOLO_V5_COLOR      == 114
F32_HIDDEN         == 2^23        \* least 24-bit significand of binary32

\* ---------------------------------------------------------------- rationals
RECURSIVE Gcd(_, _)
Gcd(a, b) == IF b = 0 THEN a ELSE Gcd(b, a % b)

Abs(x) == IF x < 0 THEN -x ELSE x

Norm(n, d) ==
    LET g == Gcd(Abs(n), d) IN <<n \div g, d \div g>>

R(n) == <<n, 1>>

Lcm(a, b) == (a \div Gcd(a, b)) * b

RAdd(p, q) ==
    LET l == Lcm(p[2], q[2]) IN Norm(p[1] * (l \div p[2]) + q[1] * (l \div q[2]), l)

RNeg(p) == <<-p[1], p[2]>>

RSub(p, q) == RAdd(p, RNeg(q))

RMul(p, q) ==
    LET a == Norm(p[1], q[2])
        b == Norm(q[1], p[2])
    IN  <<a[1] * b[1], a[2] * b[2]>>

RDiv(p, q) == RMul(p, <<q[2], q[1]>>)   \* q > 0

RLe(p, q) ==
    LET l == Lcm(p[2], q[2]) IN p[1] * (l \div p[2]) <= q[1] * (l \div q[2])

RLt(p, q) == RLe(p, q) /\ p # q

RMin(p, q) == IF RLe(p, q) THEN p ELSE q

RMax(p, q) == IF RLe(p, q) THEN q ELSE p

RFloor(p) == p[1] \div p[2]

RAbs(p) == <<Abs(p[1]), p[2]>>

\* Python 3 round(): nearest integer, ties to the even one.
PyRound(p) ==
    LET f == RFloor(p)
        r == 2 * (p[1] - f * p[2])      \* twice the fractional part, times d
    IN  IF r < p[2] THEN f
        ELSE IF r > p[2] THEN f + 1
        ELSE IF f % 2 = 0 THEN f ELSE f + 1

\* tf.clip_by_value
ClipByValue(p, lo, hi) == RMin(RMax(p, lo), hi)

\* ------------------------------------------------------------ IEEE binary32
\* A positive binary32 value is [m, k]: m * 2^(-k), 2^23 <= m < 2^24.
RECURSIVE F32Exp(_, _, _)
F32Exp(a, b, k) == IF a * 2^k >= F32_HIDDEN * b THEN k ELSE F32Exp(a, b, k + 1)

F32Renorm(m, k) == IF m = 2 * F32_HIDDEN THEN [m |-> F32_HIDDEN, k |-> k - 1]
                   ELSE [m |-> m, k |-> k]

\* a / b in binary32, for integers 1 <= a, b < 2^7 (exactly representable)
F32Div(a, b) ==
    LET k == F32Exp(a, b, 0)
        q == (a * 2^k) \div b
        r == (a * 2^k) % b
        up == (2 * r > b) \/ (2 * r = b /\ q % 2 = 1)
    IN  F32Renorm(IF up THEN q + 1 ELSE q, k)

RECURSIVE F32Shift(_, _)
F32Shift(p, j) == IF p \div 2^j < 2 * F32_HIDDEN THEN j ELSE F32Shift(p, j + 1)

\* f * n in binary32, n an integer 1 <= n < 2^7
F32MulInt(f, n) ==
    LET p == f.m * n
        j == F32Shift(p, 0)
        q == p \div 2^j
        r == p % 2^j
        up == (2 * r > 2^j) \/ (2 * r = 2^j /\ q % 2 = 1)
    IN  F32Renorm(IF up THEN q + 1 ELSE q, f.k - j)

\* tf.cast(f, tf.int32): truncation toward zero
F32ToInt32(f) == IF f.k >= 0 THEN f.m \div 2^(f.k) ELSE f.m * 2^(-(f.k))

F32Ge(f, g) == IF f.k # g.k THEN f.k < g.k ELSE f.m >= g.m

\* the exact value of a binary32 number
F32Value(f) == IF f.k >= 0 THEN Norm(f.m, 2^(f.k)) ELSE R(f.m * 2^(-(f.k)))

\* ------------------------------------------------------------------ tensors
\* rank 1: vector of len entries; rank 2: column [len, 1]; rank 0: scalar
Vec(s) == [head |-> s, fill |-> R(-1), len |-> Len(s), rank |-> 1]

At(t, i) == IF i <= Len(t.head) THEN t.head[i] ELSE t.fill

Expand(t) == [i \in 1..t.len |-> At(t, i)]

\* elementwise f(t)
TMap(Op(_), t) ==
    [head |-> [i \in 1..Len(t.head) |-> Op(t.head[i])], fill |-> Op(t.fill),
     len |-> t.len, rank |-> t.rank]

\* elementwise f(s, t) of two tensors of the same length
TZip(Op(_, _), s, t) ==
    LET n == IF Len(s.head) >= Len(t.head) THEN Len(s.head) ELSE Len(t.head)
    IN  [head |-> [i \in 1..n |-> Op(At(s, i), At(t, i))],
         fill |-> Op(s.fill, t.fill), len |-> s.len, rank |-> s.rank]

TScale(t, c) == LET Times(v) == RMul(v, c) IN TMap(Times, t)

TShift(t, c) == LET Plus(v) == RAdd(v, c) IN TMap(Plus, t)

TClip(t, lo, hi) == LET Clip(v) == ClipByValue(v, lo, hi) IN TMap(Clip, t)

TSub(s, t) == TZip(RSub, s, t)

\* tf.concat([xmin, ymin, w, h], axis=1) of four [M, 1] columns: rows of 4
Concat4(a, b, c, d) ==
    LET Row(i) == <<At(a, i), At(b, i), At(c, i), At(d, i)>>
        n == Len(a.head)
    IN  [head |-> [i \in 1..n |-> Row(i)],
         fill |-> <<a.fill, b.fill, c.fill, d.fill>>, len |-> a.len, rank |-> 2]

\* tf.expand_dims(t, axis=1): defined for rank >= 1 only
ExpandDims1(t) == [t EXCEPT !.rank = 2]

\* mutant of _pad_tensor: a slice instead of the runtime's error when x is longer
PadTensorTruncating(x, max_tensor_padding) ==
    [err |-> x.rank # 1,
     t |-> [head |-> [i \in 1..(IF Len(x.head) <= max_tensor_padding THEN Len(x.head)
                                ELSE max_tensor_padding) |-> x.head[i]],
            fill |-> R(-1), len |-> max_tensor_padding,
            rank |-> IF max_tensor_padding = 1 THEN 0 ELSE 1]]

\* _pad_tensor(x, max_tensor_padding): pad to [1, M] with -1, then tf.squeeze.
\* tf.shape(x)[0] needs rank >= 1; two padding pairs need rank 1 after the
\* expand_dims; tf.pad rejects a negative padding; tf.squeeze drops EVERY
\* dimension of size 1, so M = 1 yields a scalar.
_pad_tensor(x, max_tensor_padding) ==
    IF x.rank # 1 \/ max_tensor_padding - x.len < 0
    THEN [err |-> TRUE, t |-> x]
    ELSE LET h == IF x.len = Len(x.head) \/ x.fill = R(-1) THEN x.head ELSE Expand(x)
         IN  [err |-> FALSE,
              t |-> [head |-> h, fill |-> R(-1), len |-> max_tensor_padding,
                     rank |-> IF max_tensor_padding = 1 THEN 0 ELSE 1]]

\* ----------------------------------------------------------------- mappings
Has(info, k) == k \in DOMAIN info

Put(info, k, v) == [x \in (DOMAIN info) \cup {k} |-> IF x = k THEN v ELSE info[x]]

Del(info, k) == [x \in (DOMAIN info) \ {k} |-> info[x]]

Fail(st, e) == [st EXCEPT !.err = e]

\* the outcome p of a _pad_tensor call, stored under key
StorePadded(st, key, p) ==
    IF p.err THEN Fail(st, "InvalidArgument") ELSE [st EXCEPT !.info = Put(@, key, p.t)]

\* image_info[key] = _pad_tensor(image_info[key], M)
PadKey(st, key, M) ==
    IF st.err # "ok" THEN st
    ELSE IF ~Has(st.info, key) THEN Fail(st, "KeyError")
    ELSE StorePadded(st, key, _pad_tensor(st.info[key], M))

\* the same, when the code guards it with "if key in image_info"
PadKeyIfPresent(st, key, M) ==
    IF st.err = "ok" /\ Has(st.info, key) THEN PadKey(st, key, M) ELSE st

\* tf.expand_dims(p, axis=1) of a _pad_tensor outcome, stored under key
StoreColumn(st, key, p) ==
    IF p.err \/ p.t.rank = 0 THEN Fail(st, "InvalidArgument")
    ELSE [st EXCEPT !.info = Put(@, key, ExpandDims1(p.t))]

\* image_info['area'] = tf.expand_dims(_pad_tensor(c * image_info['area'], M), axis=1)
PadArea(st, c, M) ==
    IF st.err # "ok" THEN st
    ELSE IF ~Has(st.info, "area") THEN Fail(st, "KeyError")
    ELSE StoreColumn(st, "area", _pad_tensor(TScale(st.info["area"], c), M))

\* the same, when the code guards it with "if 'area' in image_info"
PadAreaIfPresent(st, c, M) ==
    IF st.err = "ok" /\ Has(st.info, "area") THEN PadArea(st, c, M) ELSE st

\* tf.expand_dims(p, axis=1) of a _pad_tensor outcome, appended to st.cols
AppendColumn(st, p) ==
    IF p.err \/ p.t.rank = 0 THEN Fail(st, "InvalidArgument")
    ELSE [st EXCEPT !.cols = Append(@, ExpandDims1(p.t))]

\* mutant of PopScalePad: image_info[key] read, not popped
PopScalePadKeep(st, key, scale, M) ==
    IF st.err # "ok" THEN st
    ELSE IF ~Has(st.info, key) THEN Fail(st, "KeyError")
    ELSE AppendColumn(st, _pad_tensor(TScale(st.info[key], scale), M))

\* tf.expand_dims(_pad_tensor(image_info.pop(key) * scale, M), axis=1)
PopScalePad(st, key, scale, M) ==
    IF st.err # "ok" THEN st
    ELSE IF ~Has(st.info, key) THEN Fail(st, "KeyError")
    ELSE AppendColumn([st EXCEPT !.info = Del(@, key)],
                      _pad_tensor(TScale(st.info[key], scale), M))

\* the four pops, in source order: xmin, xmax, ymin, ymax
PopBoxes(st, x_scale, y_scale, max_pad) ==
    PopScalePad(PopScalePad(PopScalePad(PopScalePad(st,
        "xmin", x_scale, max_pad), "xmax", x_scale, max_pad),
        "ymin", y_scale, max_pad), "ymax", y_scale, max_pad)

\* mutant of _extract_box_from_image_info: is_normalized ignored, no scaling
ExtractBoxUnscaled(st, max_padding_length, is_normalized) ==
    IF st.err # "ok" THEN st ELSE PopBoxes(st, R(1), R(1), max_padding_length)

\* the scales are read from image_info before the first pop
_extract_box_from_image_info(st, max_padding_length, is_normalized) ==
    IF st.err # "ok" THEN st
    ELSE IF ~is_normalized THEN PopBoxes(st, R(1), R(1), max_padding_length)
    ELSE IF ~(Has(st.info, "width") /\ Has(st.info, "height")) THEN Fail(st, "KeyError")
    ELSE PopBoxes(st, R(st.info["width"]), R(st.info["height"]), max_padding_length)

_cast_image_info_types(st, image, max_padding_length) ==
    IF st.err # "ok" THEN st
    ELSE PadKeyIfPresent(
             PadKeyIfPresent([st EXCEPT !.info = Put(@, "img_orig", image)],
                             "category_id", max_padding_length),
             "is_crowd", max_padding_length)

\* image_info['bbox'] = tf.concat([xmin, ymin, xmax - xmin, ymax - ymin], axis=1)
\* st.cols = <<xmin, xmax, ymin, ymax>>
StoreBbox(st) ==
    IF st.err # "ok" THEN st
    ELSE [st EXCEPT !.info = Put(@, "bbox",
              Concat4(st.cols[1], st.cols[3],
                      TSub(st.cols[2], st.cols[1]), TSub(st.cols[4], st.cols[3])))]

PutKey(st, k, v) == IF st.err # "ok" THEN st ELSE [st EXCEPT !.info = Put(@, k, v)]

Put2(st, k1, v1, k2, v2) == PutKey(PutKey(st, k1, v1), k2, v2)

Start(info) == [info |-> info, err |-> "ok", cols |-> <<>>]

NoAux == [kind |-> "none"]

Result(st, image, aux) == [image |-> image, info |-> st.info, err |-> st.err, aux |-> aux]

\* ------------------------------------------------------------ resize helpers
Img(h, w, vals) == [h |-> h, w |-> w, vals |-> vals]

\* mutant of Borders: the same width on both sides
BordersEven(d) == <<PyRound(RSub(d, <<1, 10>>)), PyRound(RSub(d, <<1, 10>>))>>

\* top, bottom = round(d - 0.1), round(d + 0.1)
Borders(d) == <<PyRound(RSub(d, <<1, 10>>)), PyRound(RAdd(d, <<1, 10>>))>>

\* cv2.resize to (new_width, new_height) and cv2.copyMakeBorder(top, bottom,
\* left, right): cv2.resize raises on an empty dsize, copyMakeBorder on a
\* negative border; the border colour is stored in a uint8 image.
LetterboxImage(img, color, new_width, new_height, tb, lr) ==
    [kind |-> "letterbox",
     err  |-> new_width <= 0 \/ new_height <= 0
              \/ tb[1] < 0 \/ tb[2] < 0 \/ lr[1] < 0 \/ lr[2] < 0,
     image |-> Img(tb[1] + new_height + tb[2], lr[1] + new_width + lr[2],
                   img.vals \cup (IF tb[1] > 0 \/ tb[2] > 0 \/ lr[1] > 0 \/ lr[2] > 0
                                  THEN {R(PyRound(color))} ELSE {})),
     new_width |-> new_width, new_height |-> new_height,
     top |-> tb[1], bottom |-> tb[2], left |-> lr[1], right |-> lr[2]]

LetterboxTo(img, height, width, color, new_width, new_height) ==
    LetterboxImage(img, color, new_width, new_height,
                   Borders(Norm(height - new_height, 2)),
                   Borders(Norm(width - new_width, 2)))

LetterboxRatio(img, height, width, color, ratio) ==
    LetterboxTo(img, height, width, color,
                PyRound(RMul(R(img.w), ratio)), PyRound(RMul(R(img.h), ratio)))

letterbox(img, height, width, color) ==
    LetterboxRatio(img, height, width, color,
                   RMin(Norm(height, img.h), Norm(width, img.w)))

\* tf.compat.v1.image.resize_bilinear to [new_height, new_width], then tf.pad
\* at the bottom and the right: resize_bilinear rejects a non-positive size,
\* tf.pad a negative padding.
ArResized(height, image, width, aspect_ratio_factor, new_height, new_width) ==
    [kind |-> "ar",
     err  |-> new_height <= 0 \/ new_width <= 0
              \/ height - new_height < 0 \/ width - new_width < 0,
     aspect_ratio_factor |-> aspect_ratio_factor,
     image |-> Img(new_height + (height - new_height), new_width + (width - new_width),
                   image.vals \cup (IF height - new_height > 0 \/ width - new_width > 0
                                    THEN {R(0)} ELSE {})),
     image_height |-> image.h, image_width |-> image.w,
     new_height |-> new_height, new_width |-> new_width,
     pad_bottom |-> height - new_height, pad_right |-> width - new_width]

ArFactor(height, image, width, aspect_ratio_factor) ==
    ArResized(height, image, width, aspect_ratio_factor,
              F32ToInt32(F32MulInt(aspect_ratio_factor, image.h)),
              F32ToInt32(F32MulInt(aspect_ratio_factor, image.w)))

\* _ar_preserving_resize_and_crop(height, image, width), in binary32
_ar_preserving_resize_and_crop(height, image, width) ==
    ArFactor(height, image, width,
             IF F32Ge(F32Div(image.w, image.h), F32Div(width, height))
             THEN F32Div(width, image.w)
             ELSE F32Div(height, image.h))

\* tf.compat.v1.image.resize_image_with_pad: aspect-preserving resize, then
\* zero padding to the target; the resize rejects a side that floors to 0.
ResizedWithPad(image, height, width, resized_h, resized_w) ==
    [err |-> resized_h <= 0 \/ resized_w <= 0,
     image |-> Img(height, width,
                   image.vals \cup (IF resized_h < height \/ resized_w < width
                                    THEN {R(0)} ELSE {}))]

ResizeBy(image, height, width, ratio) ==
    ResizedWithPad(image, height, width,
                   RFloor(RDiv(R(image.h), ratio)), RFloor(RDiv(R(image.w), ratio)))

resize_image_with_pad(image, height, width) ==
    ResizeBy(image, height, width, RMax(Norm(image.w, width), Norm(image.h, height)))

\* tf.repeat(t, repeats=[n], axis=0) of a tensor with one entry
Repeat(t, n) == [head |-> [i \in 1..n |-> At(t, 1)], fill |-> t.fill, len |-> n,
                 rank |-> 1]

\* ------------------------------------------------- the preprocessing functions
\* Each takes the image, the image_info mapping and the target size and
\* returns the image, the mapping as the call left it, and the error that
\* ended the call ("ok" when it returned).  Statements run in source order
\* (eager execution); an error leaves the mapping as mutated so far.

\* mutant of CenternetPads: the two padding flags exchanged
CenternetPadsSwapped(h, w, H, W, H_ratio, W_ratio, im_resize_ratio) ==
    [im_resize_ratio |-> im_resize_ratio,
     w_padding |-> R(RFloor(RMul(RMul(<<1, 2>>, IF RLt(W_ratio, H_ratio) THEN R(1) ELSE R(0)),
                                 RAbs(RSub(W, RMul(w, im_resize_ratio)))))),
     h_padding |-> R(RFloor(RMul(RMul(<<1, 2>>, IF RLt(H_ratio, W_ratio) THEN R(1) ELSE R(0)),
                                 RAbs(RSub(H, RMul(h, im_resize_ratio))))))]

\* lines 52-64: the resize ratio and the paddings of the box frame
CenternetPads(h, w, H, W, H_ratio, W_ratio, im_resize_ratio) ==
    [im_resize_ratio |-> im_resize_ratio,
     w_padding |-> R(RFloor(RMul(RMul(<<1, 2>>, IF RLt(H_ratio, W_ratio) THEN R(1) ELSE R(0)),
                                 RAbs(RSub(W, RMul(w, im_resize_ratio)))))),
     h_padding |-> R(RFloor(RMul(RMul(<<1, 2>>, IF RLt(W_ratio, H_ratio) THEN R(1) ELSE R(0)),
                                 RAbs(RSub(H, RMul(h, im_resize_ratio))))))]

CenternetRatios(h, w, H, W, H_ratio, W_ratio) ==
    CenternetPads(h, w, H, W, H_ratio, W_ratio, RMin(H_ratio, W_ratio))

CenternetGeometry(h, w, H, W) == CenternetRatios(h, w, H, W, RDiv(H, h), RDiv(W, w))

\* mutant of CenternetMove: no clipping
CenternetMoveUnclipped(t, ratio, padding, limit) == TShift(TScale(t, ratio), padding)

\* lines 68-76: scale, offset and clip one coordinate column
CenternetMove(t, ratio, padding, limit) ==
    TClip(TShift(TScale(t, ratio), padding), R(0), R(limit - 1))

CenternetMoveAll(st, g, height, width) ==
    IF st.err # "ok" THEN st
    ELSE [st EXCEPT !.cols =
            <<CenternetMove(st.cols[1], g.im_resize_ratio, g.w_padding, width),
              CenternetMove(st.cols[2], g.im_resize_ratio, g.w_padding, width),
              CenternetMove(st.cols[3], g.im_resize_ratio, g.h_padding, height),
              CenternetMove(st.cols[4], g.im_resize_ratio, g.h_padding, height)>>]

\* lines 66-86, given the geometry g
CenternetBoxes(st, g, height, width) ==
    PadArea(
      StoreBbox(
        Put2(CenternetMoveAll(_extract_box_from_image_info(st, MAX_PADDING_LENGTH, TRUE),
                              g, height, width),
             "height", height, "width", width)),
      RMul(g.im_resize_ratio, g.im_resize_ratio), MAX_PADDING_LENGTH)

CenternetWith(st, image, g, height, width) ==
    Result(CenternetBoxes(st, g, height, width), image,
           [kind |-> "centernet", im_resize_ratio |-> g.im_resize_ratio,
            w_padding |-> g.w_padding, h_padding |-> g.h_padding])

\* lines 51-86, after _cast_image_info_types
CenternetInfo(st, image, height, width) ==
    IF st.err # "ok" THEN Result(st, image, NoAux)
    ELSE IF ~(Has(st.info, "height") /\ Has(st.info, "width"))
    THEN Result(Fail(st, "KeyError"), image, NoAux)
    ELSE CenternetWith(st, image,
                       CenternetGeometry(R(st.info["height"]), R(st.info["width"]),
                                         R(height), R(width)),
                       height, width)

CenternetResized(image, s0, rs, height, width) ==
    IF rs.err THEN Result(Fail(s0, "InvalidArgument"), image, NoAux)
    ELSE IF ~Has(s0.info, "num_boxes") THEN Result(s0, rs.image, NoAux)
    ELSE CenternetInfo(_cast_image_info_types(s0, rs.image, MAX_PADDING_LENGTH),
                       rs.image, height, width)

centernet_resnet_v1_18_detection(image, image_info, height, width) ==
    CenternetResized(image, [Start(image_info) EXCEPT !.info = Put(@, "img_orig", image)],
                     resize_image_with_pad(image, height, width), height, width)

\* lines 118-127 and the like: cast, extract, bbox, area
BoxesAndArea(st, out, max_pad) ==
    PadArea(StoreBbox(_extract_box_from_image_info(
                          _cast_image_info_types(st, out, MAX_PADDING_LENGTH), max_pad, TRUE)),
            R(1), MAX_PADDING_LENGTH)

YoloV3Info(s0, out) ==
    IF ~Has(s0.info, "num_boxes") THEN Result(s0, out, NoAux)
    ELSE Result(BoxesAndArea(s0, out, MAX_PADDING_LENGTH), out, NoAux)

yolo_v3(image, image_info, height, width) ==
    YoloV3Info(Put2(Start(image_info), "height", image.h, "width", image.w),
               Img(height, width, image.vals))

\* lines 152-163
YoloV5Info(st, image, height, width, lb) ==
    Put2(Put2(PadArea(Put2(StoreBbox(_extract_box_from_image_info(
                                _cast_image_info_types(st, lb.image, MAX_PADDING_LENGTH),
                                MAX_PADDING_LENGTH, TRUE)),
                           "height", image.h, "width", image.w),
                      R(1), MAX_PADDING_LENGTH),
              "letterbox_height", lb.new_height, "letterbox_width", lb.new_width),
         "horizontal_pad", width - lb.new_width, "vertical_pad", height - lb.new_height)

YoloV5Letterboxed(image, image_info, height, width, lb) ==
    IF lb.err THEN Result(Fail(Start(image_info), "cv2.error"), image, lb)
    ELSE IF ~Has(image_info, "num_boxes")
    THEN Result(PutKey(Start(image_info), "img_orig", lb.image), lb.image, lb)
    ELSE Result(YoloV5Info(PutKey(Start(image_info), "img_orig", lb.image),
                           image, height, width, lb),
                lb.image, lb)

yolo_v5(image, image_info, height, width) ==
    YoloV5Letterboxed(image, image_info, height, width,
                      letterbox(image, height, width, R(YOLO_V5_COLOR)))

\* resnet_v1_18_detection and regnet_detection differ only in the
\* align_corners flag of the bilinear resize
BilinearDetection(image_info, out) ==
    IF DOMAIN image_info = {} \/ ~Has(image_info, "num_boxes")
    THEN Result(Start(image_info), out, NoAux)
    ELSE Result(BoxesAndArea(Start(image_info), out, MAX_PADDING_LENGTH), out, NoAux)

resnet_v1_18_detection(image, image_info, height, width) ==
    BilinearDetection(image_info, Img(height, width, image.vals))

regnet_detection(image, image_info, height, width) ==
    BilinearDetection(image_info, Img(height, width, image.vals))

\* lines 238-245: the scales are read from image_info at each pop
MobilenetBoxes(st, max_pad) ==
    IF st.err # "ok" THEN st
    ELSE IF ~(Has(st.info, "width") /\ Has(st.info, "height")) THEN Fail(st, "KeyError")
    ELSE PopBoxes(st, R(st.info["width"]), R(st.info["height"]), max_pad)

MobilenetInfo(st, img_orig, max_pad) ==
    PadArea(StoreBbox(MobilenetBoxes(
                PadKey(PadKey(PutKey(st, "img_orig", img_orig), "category_id", max_pad),
                       "is_crowd", max_pad),
                max_pad)),
            R(1), max_pad)

\* convert_image_dtype scales uint8 to [0, 1]; image * 255 undoes it
MobilenetPixels(vals) == {RMul(RDiv(v, R(255)), R(255)) : v \in vals}

MobilenetOut(image_info, out, img_orig) ==
    IF DOMAIN image_info = {} \/ ~Has(image_info, "num_boxes")
    THEN Result(Start(image_info), out, NoAux)
    ELSE Result(MobilenetInfo(Start(image_info), img_orig, MAX_PADDING_LENGTH), out, NoAux)

mobilenet_ssd(image, image_info, height, width) ==
    MobilenetOut(image_info, Img(height, width, MobilenetPixels(image.vals)),
                 Img(height, width, image.vals))

\* mutant of Stage2Info: the popped name and id put back as they were
Stage2InfoUnrepeated(image_info, num_proposals, image_name, image_id) ==
    Del(image_info, "num_rpn_boxes")

\* lines 270-274, once the three keys are known to be present
Stage2Info(image_info, num_proposals, image_name, image_id) ==
    Put(Put(Del(Del(Del(image_info, "num_rpn_boxes"), "image_name"), "image_id"),
            "image_name", Repeat(image_name, num_proposals)),
        "image_id", Repeat(image_id, num_proposals))

\* ROIAlignWrapper is outside this file: the returned feature maps are
\* modelled by their count (one crop per proposal) only.
faster_rcnn_stage2(featuremap, image_info, height, width) ==
    IF ~Has(image_info, "rpn_proposals") \/ ~Has(image_info, "num_rpn_boxes")
    THEN Result(Fail(Start(image_info), "KeyError"), featuremap, NoAux)
    ELSE IF ~Has(image_info, "image_name")
    THEN Result(Fail(Start(Del(image_info, "num_rpn_boxes")), "KeyError"), featuremap, NoAux)
    ELSE IF ~Has(image_info, "image_id")
    THEN Result(Fail(Start(Del(Del(image_info, "num_rpn_boxes"), "image_name")), "KeyError"),
                featuremap, NoAux)
    ELSE Result(Start(Stage2Info(image_info, image_info["num_rpn_boxes"],
                                 image_info["image_name"], image_info["image_id"])),
                Img(image_info["num_rpn_boxes"], 1, featuremap.vals), NoAux)

\* lines 291-313; f is the value of aspect_ratio_factor
ArSsdInfo(st, ar, f, height, width, max_pad) ==
    PadAreaIfPresent(
      StoreBbox(
        Put2(PopBoxes(PadKey(PadKey(PutKey(st, "img_orig", ar.image),
                                    "category_id", max_pad), "is_crowd", max_pad),
                      RMul(f, R(ar.image_width)), RMul(f, R(ar.image_height)), max_pad),
             "height", height, "width", width)),
      R(1), max_pad)

ArSsdResized(image, image_info, height, width, ar) ==
    IF ar.err THEN Result(Fail(Start(image_info), "InvalidArgument"), image, ar)
    ELSE IF DOMAIN image_info = {} THEN Result(Start(image_info), ar.image, ar)
    ELSE IF ~Has(image_info, "num_boxes")
    THEN Result(Fail(PutKey(Start(image_info), "img_orig", ar.image), "KeyError"),
                ar.image, ar)
    ELSE Result(ArSsdInfo(Start(image_info), ar, F32Value(ar.aspect_ratio_factor),
                          height, width, MAX_PADDING_LENGTH),
                ar.image, ar)

mobilenet_ssd_ar_preserving(image, image_info, height, width) ==
    ArSsdResized(image, image_info, height, width,
                 _ar_preserving_resize_and_crop(height, image, width))

\* lines 358-363 and 386-391
FaceBoxes(st, max_pad) ==
    IF st.err = "ok" /\ Has(st.info, "num_boxes") /\ Has(st.info, "xmin")
    THEN StoreBbox(_extract_box_from_image_info(st, max_pad, TRUE))
    ELSE st

\* the tail shared by face_ssd and retinaface (lines 356-370, 384-398)
FaceInfo(image_info, out, image, height, width, new_height, new_width) ==
    IF DOMAIN image_info = {} THEN Start(image_info)
    ELSE Put2(Put2(Put2(FaceBoxes(_cast_image_info_types(Start(image_info), out, FACE_MAX_PAD),
                                  FACE_MAX_PAD),
                        "height", height, "width", width),
                   "original_height", image.h, "original_width", image.w),
              "horizontal_pad", width - new_width, "vertical_pad", height - new_height)

face_ssd(image, image_info, height, width) ==
    Result(FaceInfo(image_info, Img(height, width, image.vals), image,
                    height, width, height, width),
           Img(height, width, image.vals), NoAux)

RetinafaceResized(image, image_info, height, width, ar) ==
    IF ar.err THEN Result(Fail(Start(image_info), "InvalidArgument"), image, ar)
    ELSE Result(FaceInfo(image_info, ar.image, image, height, width,
                         ar.new_height, ar.new_width), ar.image, ar)

retinaface(image, image_info, height, width) ==
    RetinafaceResized(image, image_info, height, width,
                      _ar_preserving_resize_and_crop(height, image, width))

\* lines 433-447
FairMotInfo(st, image, height, width, lb, max_pad) ==
    PadKey(PadKey(PadKey(
      Put2(Put2(Put2(StoreBbox(_extract_box_from_image_info(
                         _cast_image_info_types(st, lb.image, max_pad), max_pad, FALSE)),
                     "height", height, "width", width),
                "original_height", image.h, "original_width", image.w),
           "horizontal_pad", width - lb.new_width, "vertical_pad", height - lb.new_height),
      "person_id", max_pad), "label", max_pad), "is_ignore", max_pad)

FairMotLetterboxed(image, image_info, height, width, lb) ==
    IF lb.err THEN Result(Fail(Start(image_info), "cv2.error"), image, lb)
    ELSE IF DOMAIN image_info = {} THEN Result(Start(image_info), lb.image, lb)
    ELSE Result(FairMotInfo(Start(image_info), image, height, width, lb, MAX_PADDING_LENGTH),
                lb.image, lb)

\* the default colour (127.5, 127.5, 127.5)
fair_mot(image, image_info, height, width) ==
    FairMotLetterboxed(image, image_info, height, width,
                       letterbox(image, height, width, <<255, 2>>))

\* -------------------------------------------------------------------- state
VARIABLES image,       \* the image handed to the function
          image_info,  \* the annotation mapping, mutated in place by the calls
          height,      \* target height
          width,       \* target width
          fn,          \* the function called last ("none" before the first call)
          calls,       \* calls made on this mapping
          ret,         \* the image the last call returned
          err,         \* "ok", or the error that ended the last call
          aux,         \* what the resize helper of the last call computed
          before       \* image_info as it was when the last call began

vars == <<image, image_info, height, width, fn, calls, ret, err, aux, before>>

Pixels == {1, 255}

Coords == {Norm(k, BoxDen) : k \in 0..BoxDen}

\* a box with xmin = a <= xmax = b; its y interval is the x interval mirrored
Box(a, b) == [xmin |-> a, xmax |-> b, ymin |-> RSub(R(1), b), ymax |-> RSub(R(1), a)]

\* the transposed box
Flip(bx) == [xmin |-> bx.ymin, xmax |-> bx.ymax, ymin |-> bx.xmin, ymax |-> bx.xmax]

\* n boxes: a box and its transpose, alternating
BoxList(n, a, b) == [i \in 1..n |-> IF i % 2 = 1 THEN Box(a, b) ELSE Flip(Box(a, b))]

BoxLists == {BoxList(n, c[1], c[2]) :
               n \in 0..MaxBoxes, c \in {d \in Coords \X Coords : RLe(d[1], d[2])}}

Column(bs, k) == Vec([i \in 1..Len(bs) |-> bs[i][k]])

Const(bs, v) == Vec([i \in 1..Len(bs) |-> R(v)])

\* the annotation record of an image of size H0 x W0 with boxes bs; stage 1
\* proposes one region per box and one more
Annotation(H0, W0, bs) ==
    [height |-> H0, width |-> W0, num_boxes |-> Len(bs),
     xmin |-> Column(bs, "xmin"), xmax |-> Column(bs, "xmax"),
     ymin |-> Column(bs, "ymin"), ymax |-> Column(bs, "ymax"),
     area |-> Vec([i \in 1..Len(bs) |->
                     RMul(RMul(RSub(bs[i].xmax, bs[i].xmin), R(W0)),
                          RMul(RSub(bs[i].ymax, bs[i].ymin), R(H0)))]),
     category_id |-> Const(bs, 1), is_crowd |-> Const(bs, 0),
     person_id |-> Const(bs, 3), label |-> Const(bs, 1), is_ignore |-> Const(bs, 0),
     image_id |-> Vec(<<R(7)>>), image_name |-> Vec(<<"img">>),
     num_rpn_boxes |-> Len(bs) + 1,
     rpn_proposals |-> Vec([i \in 1..(Len(bs) + 1) |-> R(i)])]

InitWith(Sides, Targets, Lists, Pix) ==
    /\ \E H0 \in Sides, W0 \in Sides, p \in Pix, bs \in Lists :
         /\ image = Img(H0, W0, {R(p)})
         /\ image_info = Annotation(H0, W0, bs)
         /\ before = Annotation(H0, W0, bs)
    /\ height \in Targets
    /\ width \in Targets
    /\ fn = "none"
    /\ calls = 0
    /\ ret = image
    /\ err = "ok"
    /\ aux = NoAux

Init == InitWith(1..MaxSide, 1..MaxSide, BoxLists, Pixels)

\* one call of function name, whose outcome is r
Invoke(name, r) ==
    /\ calls < MaxCalls
    /\ err = "ok"
    /\ fn \in {"none", name}
    /\ fn' = name
    /\ calls' = calls + 1
    /\ before' = image_info
    /\ image_info' = r.info
    /\ ret' = r.image
    /\ err' = r.err
    /\ aux' = r.aux
    /\ UNCHANGED <<image, height, width>>

Call_centernet_resnet_v1_18_detection ==
    Invoke("centernet_resnet_v1_18_detection",
           centernet_resnet_v1_18_detection(image, image_info, height, width))

Call_yolo_v3 == Invoke("yolo_v3", yolo_v3(image, image_info, height, width))

Call_yolo_v5 == Invoke("yolo_v5", yolo_v5(image, image_info, height, width))

Call_resnet_v1_18_detection ==
    Invoke("resnet_v1_18_detection", resnet_v1_18_detection(image, image_info, height, width))

Call_regnet_detection ==
    Invoke("regnet_detection", regnet_detection(image, image_info, height, width))

Call_mobilenet_ssd == Invoke("mobilenet_ssd", mobilenet_ssd(image, image_info, height, width))

Call_faster_rcnn_stage2 ==
    Invoke("faster_rcnn_stage2", faster_rcnn_stage2(image, image_info, height, width))

Call_mobilenet_ssd_ar_preserving ==
    Invoke("mobilenet_ssd_ar_preserving",
           mobilenet_ssd_ar_preserving(image, image_info, height, width))

Call_face_ssd == Invoke("face_ssd", face_ssd(image, image_info, height, width))

Call_retinaface == Invoke("retinaface", retinaface(image, image_info, height, width))

Call_fair_mot == Invoke("fair_mot", fair_mot(image, image_info, height, width))

\* _pad_tensor applied on its own to the unpadded xmin tensor
Call_pad_tensor ==
    /\ fn = "none"
    /\ \E M \in 0..MaxPadArg :
         /\ aux' = [kind |-> "pad", x |-> image_info["xmin"], M |-> M,
                    t |-> _pad_tensor(image_info["xmin"], M).t]
         /\ err' = IF _pad_tensor(image_info["xmin"], M).err THEN "InvalidArgument" ELSE "ok"
    /\ fn' = "_pad_tensor"
    /\ calls' = calls + 1
    /\ before' = image_info
    /\ UNCHANGED <<image, image_info, height, width, ret>>

Next ==
    \/ Call_centernet_resnet_v1_18_detection
    \/ Call_yolo_v3
    \/ Call_yolo_v5
    \/ Call_resnet_v1_18_detection
    \/ Call_regnet_detection
    \/ Call_mobilenet_ssd
    \/ Call_faster_rcnn_stage2
    \/ Call_mobilenet_ssd_ar_preserving
    \/ Call_face_ssd
    \/ Call_retinaface
    \/ Call_fair_mot
    \/ Call_pad_tensor

Spec == Init /\ [][Next]_vars

\* the same program on larger images, one annotation: the size arithmetic
InitSizes ==
    InitWith(1..MaxImgSide, 1..MaxDim, {BoxList(1, R(0), R(1))}, {255})

NextSizes ==
    \/ Call_yolo_v5
    \/ Call_mobilenet_ssd_ar_preserving
    \/ Call_retinaface
    \/ Call_fair_mot

SpecSizes == InitSizes /\ [][NextSizes]_vars

\* =================================================================== claims
NormalizedFns ==
    {"centernet_resnet_v1_18_detection", "yolo_v3", "yolo_v5", "resnet_v1_18_detection",
     "regnet_detection", "mobilenet_ssd", "mobilenet_ssd_ar_preserving", "face_ssd",
     "retinaface"}

OriginalFrameFns ==
    NormalizedFns \ {"centernet_resnet_v1_18_detection", "mobilenet_ssd_ar_preserving"}

BboxFns == NormalizedFns \cup {"fair_mot"}

AllFns == BboxFns \cup {"faster_rcnn_stage2"}

\* the first call of f on the mapping returned
Called(f) == fn = f /\ calls = 1 /\ err = "ok"

\* during the first call, `before` is the annotation as the dataset gave it
NumReal == before["num_boxes"]

Given(k, i) == before[k].head[i]

BboxRow(i) == At(image_info["bbox"], i)

\* [xmin, ymin, xmax - xmin, ymax - ymin] of box i, each axis scaled by sx, sy
ScaledRow(i, sx, sy) ==
    <<RMul(Given("xmin", i), sx), RMul(Given("ymin", i), sy),
      RMul(RSub(Given("xmax", i), Given("xmin", i)), sx),
      RMul(RSub(Given("ymax", i), Given("ymin", i)), sy)>>

\* the row of box i after centernet's scale, offset and clip
CentredRow(i, ratio, wp, hp) ==
    LET X(v) == ClipByValue(RAdd(RMul(RMul(v, R(image.w)), ratio), wp), R(0), R(width - 1))
        Y(v) == ClipByValue(RAdd(RMul(RMul(v, R(image.h)), ratio), hp), R(0), R(height - 1))
    IN  <<X(Given("xmin", i)), Y(Given("ymin", i)),
          RSub(X(Given("xmax", i)), X(Given("xmin", i))),
          RSub(Y(Given("ymax", i)), Y(Given("ymin", i)))>>

\* C1 (as stated): every function that builds bbox from normalized coordinates
\* stores each real box in original-image pixel coordinates,
\* [xmin*W0, ymin*H0, (xmax-xmin)*W0, (ymax-ymin)*H0], whatever the target size.
C1_OriginalFrameEverywhere ==
    (fn \in NormalizedFns /\ calls = 1 /\ err = "ok") =>
        \A i \in 1..NumReal : BboxRow(i) = ScaledRow(i, R(image.w), R(image.h))

\* C1 (amended): yolo_v3, yolo_v5, resnet_v1_18_detection, regnet_detection,
\* mobilenet_ssd, face_ssd and retinaface store each real box in original-image
\* pixel coordinates; mobilenet_ssd_ar_preserving stores it scaled by
\* aspect_ratio_factor, and centernet_resnet_v1_18_detection scaled by the
\* resize ratio, offset by the padding and clipped to the target.
C1_OriginalFrameWhereKept ==
    /\ (fn \in OriginalFrameFns /\ calls = 1 /\ err = "ok") =>
          \A i \in 1..NumReal : BboxRow(i) = ScaledRow(i, R(image.w), R(image.h))
    /\ Called("mobilenet_ssd_ar_preserving") =>
          \A i \in 1..NumReal :
             BboxRow(i) = ScaledRow(i, RMul(F32Value(aux.aspect_ratio_factor), R(image.w)),
                                       RMul(F32Value(aux.aspect_ratio_factor), R(image.h)))
    /\ Called("centernet_resnet_v1_18_detection") =>
          \A i \in 1..NumReal :
             BboxRow(i) = CentredRow(i, aux.im_resize_ratio, aux.w_padding, aux.h_padding)

\* a box of non-zero extent went through yolo_v3 with a target that is not
\* the size of the image
C1_Witness ==
    /\ Called("yolo_v3")
    /\ NumReal >= 1
    /\ height # image.h
    /\ width # image.w
    /\ BboxRow(1)[3] # R(0)
    /\ BboxRow(1)[1] # R(0)

\* C2 (as stated): every pixel of the image yolo_v5 returns lies in [0, 1] and
\* is the letterboxed pixel divided by 255.
C2_NormalizedToUnit ==
    Called("yolo_v5") =>
        /\ \A v \in ret.vals : RLe(R(0), v) /\ RLe(v, R(1))
        /\ ret.vals = {RDiv(u, R(255)) : u \in aux.image.vals}

\* C3 (as stated): faster_rcnn_stage2 returns image_info with the keys and the
\* values it had before the call.
C3_PassedAsIs ==
    Called("faster_rcnn_stage2") =>
        /\ DOMAIN image_info = DOMAIN before
        /\ \A k \in DOMAIN before : image_info[k] = before[k]

\* C3 (amended): faster_rcnn_stage2 removes 'num_rpn_boxes', replaces
\* 'image_name' and 'image_id' by their value repeated num_rpn_boxes times, and
\* leaves every other key (among them 'rpn_proposals') with its value.
C3_RepeatedPerProposal ==
    Called("faster_rcnn_stage2") =>
        /\ DOMAIN image_info = (DOMAIN before) \ {"num_rpn_boxes"}
        /\ \A k \in {"image_name", "image_id"} :
              /\ image_info[k].len = before["num_rpn_boxes"]
              /\ \A i \in 1..image_info[k].len : At(image_info[k], i) = At(before[k], 1)
        /\ \A k \in (DOMAIN image_info) \ {"image_name", "image_id"} :
              image_info[k] = before[k]

C3_Witness == Called("faster_rcnn_stage2") /\ before["num_rpn_boxes"] >= 2

\* C4 (as stated): a second call with the same image and the same mapping
\* completes without error and leaves the same bbox and the same keys.
C4_SecondCallSame ==
    (fn \in AllFns /\ calls >= 2) =>
        /\ err = "ok"
        /\ DOMAIN image_info = DOMAIN before
        /\ image_info["bbox"] = before["bbox"]

\* C4 (amended): the functions keep no state of their own but mutate the
\* mapping they are given.  After a first call that returned, a second call
\* with the same mapping completes with the same bbox and keys for face_ssd and
\* retinaface, which test for 'xmin' before popping it, and ends in a KeyError
\* for every other function, which pops a key the first call removed.
C4_SecondCallOnPoppedMapping ==
    (fn \in AllFns /\ calls >= 2) =>
        IF fn \in {"face_ssd", "retinaface"}
        THEN /\ err = "ok"
             /\ DOMAIN image_info = DOMAIN before
             /\ image_info["bbox"] = before["bbox"]
        ELSE err = "KeyError"

C4_Witness ==
    /\ fn = "yolo_v3"
    /\ calls = 2
    /\ err = "KeyError"
    /\ "bbox" \in DOMAIN before
    /\ "xmin" \notin DOMAIN before

LetterboxFns == {"yolo_v5", "fair_mot"}

\* C5 (as stated): letterbox always produces an image of exactly the target
\* size: the borders are >= 0, top + new_height + bottom = height,
\* left + new_width + right = width, bottom - top and right - left are 0 or 1,
\* and the stored horizontal_pad / vertical_pad are left+right and top+bottom.
C5_AlwaysTargetSize ==
    (fn \in LetterboxFns /\ calls = 1) =>
        /\ err = "ok"
        /\ ret.h = height /\ ret.w = width
        /\ aux.top >= 0 /\ aux.bottom >= 0 /\ aux.left >= 0 /\ aux.right >= 0
        /\ aux.top + aux.new_height + aux.bottom = height
        /\ aux.left + aux.new_width + aux.right = width
        /\ aux.bottom - aux.top \in {0, 1}
        /\ aux.right - aux.left \in {0, 1}
        /\ image_info["horizontal_pad"] = aux.left + aux.right
        /\ image_info["vertical_pad"] = aux.top + aux.bottom

\* C5 (amended): with ratio = min(height/H0, width/W0), new_width and
\* new_height are W0*ratio and H0*ratio rounded to a nearest integer; the four
\* borders are >= 0, top + new_height + bottom = height,
\* left + new_width + right = width, bottom - top and right - left are 0 or 1.
\* When new_width >= 1 and new_height >= 1 the call returns an image of exactly
\* the target size and yolo_v5 / fair_mot store horizontal_pad = left + right
\* and vertical_pad = top + bottom; when either rounds to 0 the resize raises
\* and nothing is returned.
C5_LetterboxBorders ==
    (fn \in LetterboxFns /\ calls = 1) =>
        LET ratio == RMin(Norm(height, image.h), Norm(width, image.w))
        IN  /\ RLe(RAbs(RSub(R(aux.new_width), RMul(R(image.w), ratio))), <<1, 2>>)
            /\ RLe(RAbs(RSub(R(aux.new_height), RMul(R(image.h), ratio))), <<1, 2>>)
            /\ aux.top >= 0 /\ aux.bottom >= 0 /\ aux.left >= 0 /\ aux.right >= 0
            /\ aux.top + aux.new_height + aux.bottom = height
            /\ aux.left + aux.new_width + aux.right = width
            /\ aux.bottom - aux.top \in {0, 1}
            /\ aux.right - aux.left \in {0, 1}
            /\ (err = "ok") <=> (aux.new_width >= 1 /\ aux.new_height >= 1)
            /\ err # "ok" => err = "cv2.error" /\ image_info = before
            /\ err = "ok" =>
                  /\ ret.h = height /\ ret.w = width
                  /\ image_info["horizontal_pad"] = aux.left + aux.right
                  /\ image_info["vertical_pad"] = aux.top + aux.bottom

\* yolo_v5 returned an image with an odd vertical padding, split unevenly
C5_Witness ==
    /\ Called("yolo_v5")
    /\ aux.bottom - aux.top = 1
    /\ aux.top >= 1
    /\ image_info["vertical_pad"] = aux.top + aux.bottom

\* C6: in centernet_resnet_v1_18_detection every real box with
\* 0 <= xmin <= xmax <= 1 and 0 <= ymin <= ymax <= 1 is stored as [x, y, w, h]
\* with 0 <= x <= x + w <= width - 1, 0 <= y <= y + h <= height - 1, w >= 0
\* and h >= 0.
C6_ClippedIntoTarget ==
    Called("centernet_resnet_v1_18_detection") =>
        \A i \in 1..NumReal :
            LET r == BboxRow(i)
            IN  /\ RLe(R(0), r[1]) /\ RLe(r[1], RAdd(r[1], r[3]))
                /\ RLe(RAdd(r[1], r[3]), R(width - 1))
                /\ RLe(R(0), r[2]) /\ RLe(r[2], RAdd(r[2], r[4]))
                /\ RLe(RAdd(r[2], r[4]), R(height - 1))
                /\ RLe(R(0), r[3]) /\ RLe(R(0), r[4])

\* a box whose right edge lay beyond width - 1 was clipped and kept a width
C6_Witness ==
    /\ Called("centernet_resnet_v1_18_detection")
    /\ NumReal >= 1
    /\ RLt(R(width - 1),
           RAdd(RMul(RMul(Given("xmax", 1), R(image.w)), aux.im_resize_ratio), aux.w_padding))
    /\ RAdd(BboxRow(1)[1], BboxRow(1)[3]) = R(width - 1)
    /\ RLt(R(0), BboxRow(1)[3])

\* C7: in centernet_resnet_v1_18_detection, with ratio = min(H/h, W/w), at most
\* one of w_padding and h_padding is non-zero; when H/h < W/w, h_padding = 0
\* and w_padding = floor((W - w*ratio)/2); when W/w < H/h, w_padding = 0 and
\* h_padding = floor((H - h*ratio)/2); when the ratios are equal both are 0;
\* and each stored coordinate is normalized * original * ratio + padding of
\* its axis, clipped.
C7_CentredPad ==
    Called("centernet_resnet_v1_18_detection") =>
        LET Hr == Norm(height, image.h)
            Wr == Norm(width, image.w)
            ratio == IF RLe(Hr, Wr) THEN Hr ELSE Wr
            wpad == R(RFloor(RDiv(RSub(R(width), RMul(R(image.w), ratio)), R(2))))
            hpad == R(RFloor(RDiv(RSub(R(height), RMul(R(image.h), ratio)), R(2))))
        IN  /\ aux.im_resize_ratio = ratio
            /\ aux.w_padding = R(0) \/ aux.h_padding = R(0)
            /\ RLt(Hr, Wr) => aux.h_padding = R(0) /\ aux.w_padding = wpad
            /\ RLt(Wr, Hr) => aux.w_padding = R(0) /\ aux.h_padding = hpad
            /\ Hr = Wr => aux.w_padding = R(0) /\ aux.h_padding = R(0)
            /\ \A i \in 1..NumReal :
                  BboxRow(i) = CentredRow(i, ratio,
                                          IF RLt(Hr, Wr) THEN wpad ELSE R(0),
                                          IF RLt(Wr, Hr) THEN hpad ELSE R(0))

\* a box was shifted by a non-zero horizontal padding
C7_Witness ==
    /\ Called("centernet_resnet_v1_18_detection")
    /\ NumReal >= 1
    /\ RLt(R(0), aux.w_padding)
    /\ RLt(R(0), BboxRow(1)[1])

ArFns == {"retinaface", "mobilenet_ssd_ar_preserving"}

\* C8 (as stated): _ar_preserving_resize_and_crop fits the resized image inside
\* the target: new_height <= height, new_width <= width, at least one of the
\* two equals its target, and the paddings height - new_height and
\* width - new_width are >= 0; retinaface reports these amounts as
\* vertical_pad and horizontal_pad.
C8_FillsOneSide ==
    (fn \in ArFns /\ calls = 1) =>
        /\ aux.new_height <= height
        /\ aux.new_width <= width
        /\ aux.new_height = height \/ aux.new_width = width
        /\ aux.pad_bottom >= 0 /\ aux.pad_right >= 0
        /\ Called("retinaface") =>
              /\ image_info["vertical_pad"] = height - aux.new_height
              /\ image_info["horizontal_pad"] = width - aux.new_width

\* C9: for a 1-D input of length n and padding length M, if 2 <= M and n <= M
\* _pad_tensor returns exactly M entries, the first n the input in order, the
\* last M - n all -1; if n > M the call ends in the runtime's error and no
\* shortened tensor is returned.
C9_PadNeverTruncates ==
    (fn = "_pad_tensor") =>
        /\ (2 <= aux.M /\ aux.x.len <= aux.M) =>
              /\ err = "ok"
              /\ aux.t.rank = 1
              /\ aux.t.len = aux.M
              /\ \A i \in 1..aux.x.len : At(aux.t, i) = At(aux.x, i)
              /\ \A i \in (aux.x.len + 1)..aux.M : At(aux.t, i) = R(-1)
        /\ aux.x.len > aux.M => err = "InvalidArgument" /\ aux.t = aux.x

\* a tensor of at least one entry was padded by at least one entry
C9_Witness ==
    /\ fn = "_pad_tensor"
    /\ err = "ok"
    /\ aux.x.len >= 1
    /\ aux.M >= 2
    /\ aux.x.len < aux.M

\* C10 (as stated): in every function that builds bbox, every row at an index
\* >= the number of real boxes is the padding row [-1, -1, 0, 0].
C10_PaddingRowsKeepSentinel ==
    (fn \in BboxFns /\ calls = 1 /\ err = "ok") =>
        \A i \in (NumReal + 1)..image_info["bbox"].len :
            BboxRow(i) = <<R(-1), R(-1), R(0), R(0)>>

====
